---- MODULE Spec2Model ----
(***************************************************************************)
(* Model of the image upload service: the multer upload filter and the     *)
(* HTTP controller (controllers/imageController.ts), the ImageService      *)
(* orchestrating the bucket and the metadata store (services/              *)
(* imageService.ts) and the error middleware of the application entry.     *)
(*                                                                         *)
(* JavaScript strings are sequences of one-character strings, so that      *)
(* startsWith, split('/').pop(), path.extname and parseInt are computed.   *)
(* Every await is one step: the external call takes effect and the         *)
(* handler runs on to its next await or to its response.                   *)
(***************************************************************************)
EXTENDS Integers, Sequences, FiniteSets, TLC

\* ---------------------------------------------------------------- bounds
\* Number of requests in a run whose handler reaches an await on the bucket or
\* on a write of the store (the requests answered in one step are not counted).
NReq == 3
\* Date.now() and the store's now() read 0..MaxClock.
MaxClock == 1

Req == 1..NReq

\* ---------------------------------------------------------------- strings
Digit == <<"0", "1", "2", "3", "4", "5", "6", "7", "8", "9">>

IsDigit(c) == \E d \in 1..10 : Digit[d] = c

DigitValue(c) == (CHOOSE d \in 1..10 : Digit[d] = c) - 1

\* String(n) of a non-negative integer, as the template literal does.
RECURSIVE NumToStr(_)
NumToStr(n) ==
  IF n < 10 THEN <<Digit[n + 1]>>
  ELSE NumToStr(n \div 10) \o <<Digit[(n % 10) + 1]>>

\* String.prototype.startsWith
StartsWith(s, p) == Len(p) <= Len(s) /\ SubSeq(s, 1, Len(p)) = p

\* String.prototype.split('/'): the segments between the slashes.
RECURSIVE SplitSlash(_)
SplitSlash(s) ==
  IF \A i \in 1..Len(s) : s[i] # "/" THEN <<s>>
  ELSE LET k == CHOOSE i \in 1..Len(s) :
                  s[i] = "/" /\ \A j \in 1..(i - 1) : s[j] # "/"
       IN <<SubSeq(s, 1, k - 1)>> \o SplitSlash(SubSeq(s, k + 1, Len(s)))

\* Array.prototype.pop() of a non-empty array: its last element.
Pop(a) == a[Len(a)]

\* The scan of path.extname (posix), from the last character to the first.
\* st = [startDot, startPart, end, matchedSlash, preDotState, stop];
\* indices are 0-based as in the source, -1 is "unset".
ExtStep(path, i, st) ==
  LET c == path[i + 1] IN
  IF c = "/" THEN
    IF ~st.matchedSlash THEN [st EXCEPT !.startPart = i + 1, !.stop = TRUE]
    ELSE st
  ELSE
    LET s1 == IF st.end = -1
              THEN [st EXCEPT !.matchedSlash = FALSE, !.end = i + 1]
              ELSE st
    IN IF c = "." THEN
         IF s1.startDot = -1 THEN [s1 EXCEPT !.startDot = i]
         ELSE IF s1.preDotState # 1 THEN [s1 EXCEPT !.preDotState = 1]
         ELSE s1
       ELSE IF s1.startDot # -1 THEN [s1 EXCEPT !.preDotState = -1]
       ELSE s1

RECURSIVE ExtScan(_, _, _)
ExtScan(path, i, st) ==
  IF i < 0 \/ st.stop THEN st
  ELSE ExtScan(path, i - 1, ExtStep(path, i, st))

\* path.extname(path)
ExtName(path) ==
  LET st == ExtScan(path, Len(path) - 1,
                    [startDot |-> -1, startPart |-> 0, end |-> -1,
                     matchedSlash |-> TRUE, preDotState |-> 0, stop |-> FALSE])
  IN IF \/ st.startDot = -1
        \/ st.end = -1
        \/ st.preDotState = 0
        \/ (st.preDotState = 1 /\ st.startDot = st.end - 1
                               /\ st.startDot = st.startPart + 1)
     THEN <<>>
     ELSE SubSeq(path, st.startDot + 1, st.end)

\* A character is a one-character string; a character that a string of this
\* module cannot hold is written as its escape, a backslash, u and four
\* lower-case hexadecimal digits.
\* The white space parseInt skips at the start of its argument, every
\* StrWhiteSpaceChar. WhiteSpace of the grammar: tab, vertical tab, form feed,
\* space, no-break space, the byte order mark, and the space separators
\* U+1680, U+2000 to U+200A, U+202F, U+205F, U+3000.
WhiteSpaceChars ==
  {"\t", "\f", " ", "", " ", "﻿", " ",
   "\\u000b", "\\u00a0", "\\ufeff", "\\u1680",
   "\\u2000", "\\u2001", "\\u2002", "\\u2003", "\\u2004", "\\u2005",
   "\\u2006", "\\u2007", "\\u2008", "\\u2009", "\\u200a",
   "\\u202f", "\\u205f", "\\u3000"}

\* LineTerminator of the grammar: line feed, carriage return, U+2028, U+2029.
LineTerminators == {"\n", "\r", "\\u2028", "\\u2029"}

WhiteSpace == WhiteSpaceChars \cup LineTerminators

RECURSIVE TrimStart(_)
TrimStart(s) ==
  IF s # <<>> /\ s[1] \in WhiteSpace THEN TrimStart(Tail(s)) ELSE s

\* The digits above 9 of radix 16, in either case.
HexLower == <<"a", "b", "c", "d", "e", "f">>
HexUpper == <<"A", "B", "C", "D", "E", "F">>

IsHexLetter(c) == \E d \in DOMAIN HexLower : HexLower[d] = c \/ HexUpper[d] = c

IsRadixDigit(c, radix) == IsDigit(c) \/ (radix = 16 /\ IsHexLetter(c))

RadixDigitValue(c) ==
  IF IsDigit(c) THEN DigitValue(c)
  ELSE 9 + (CHOOSE d \in DOMAIN HexLower : HexLower[d] = c \/ HexUpper[d] = c)

\* A Number that is an integer, and the Number NaN.
Number(n) == [nan |-> FALSE, value |-> n]
NaN == [nan |-> TRUE, value |-> 0]

\* isNaN(x) of a Number.
isNaN(x) == x.nan

\* The value of the longest prefix of s made of digits of the radix.
RECURSIVE DigitsValue(_, _, _)
DigitsValue(s, radix, acc) ==
  IF s = <<>> \/ ~IsRadixDigit(s[1], radix) THEN acc
  ELSE DigitsValue(Tail(s), radix, acc * radix + RadixDigitValue(s[1]))

\* parseInt(s) with no radix given: leading white space is skipped, a sign is
\* taken, 0x or 0X selects radix 16 and else the radix is 10; the value of the
\* leading digits with that sign, NaN when there is no digit. The value is
\* exact, as it is in the code for every value up to 2^53.
ParseInt(s) ==
  LET t == TrimStart(s)
      negative == t # <<>> /\ t[1] = "-"
      u == IF t # <<>> /\ t[1] \in {"+", "-"} THEN Tail(t) ELSE t
      hex == Len(u) >= 2 /\ u[1] = "0" /\ u[2] \in {"x", "X"}
      z == IF hex THEN SubSeq(u, 3, Len(u)) ELSE u
      radix == IF hex THEN 16 ELSE 10
  IN IF z = <<>> \/ ~IsRadixDigit(z[1], radix) THEN NaN
     ELSE IF negative THEN Number(0 - DigitsValue(z, radix, 0))
     ELSE Number(DigitsValue(z, radix, 0))

\* ---------------------------------------------------------------- constants
\* limits.fileSize of the multer configuration: 5 * 1024 * 1024 bytes.
FileSizeLimit == 5242880

ImageSlash == <<"i", "m", "a", "g", "e", "/">>

ApplicationPdf ==
  <<"a", "p", "p", "l", "i", "c", "a", "t", "i", "o", "n", "/", "p", "d", "f">>

\* allowedMimeTypes of the upload filter.
allowedMimeTypes == {ImageSlash, ApplicationPdf}

\* allowedMimeTypes.some(type => file.mimetype.startsWith(type))
isAllowed(mimetype) == \E type \in allowedMimeTypes : StartsWith(mimetype, type)

\* 'https://storage.googleapis.com/'
StorageHost ==
  <<"h", "t", "t", "p", "s", ":", "/", "/", "s", "t", "o", "r", "a", "g", "e", ".",
    "g", "o", "o", "g", "l", "e", "a", "p", "i", "s", ".", "c", "o", "m", "/">>

\* `https://storage.googleapis.com/${bucket.name}/${blob.name}`
publicUrl(bucketName, blobName) == StorageHost \o bucketName \o <<"/">> \o blobName

\* `${Date.now()}${path.extname(file.originalname)}`
fileNameOf(now, originalname) == NumToStr(now) \o ExtName(originalname)

\* image.url.split('/').pop()
fileNameOfUrl(url) == Pop(SplitSlash(url))

\* ---------------------------------------------------------------- inputs
ImagePng == ImageSlash \o <<"p", "n", "g">>
TextPlain == <<"t", "e", "x", "t", "/", "p", "l", "a", "i", "n">>
ApplicationPdfx == ApplicationPdf \o <<"x">>

\* req.file as multer hands it over: originalname, mimetype, size, buffer.
File(originalname, mimetype, size, buffer) ==
  [originalname |-> originalname, mimetype |-> mimetype, size |-> size,
   buffer |-> buffer]

\* A request that carries no file part: req.file stays undefined.
NoFile == [size |-> -1]

Files ==
  { File(<<"a", ".", "p">>, ImagePng, 1, "A"),
    File(<<"c", ".", "d", ".", "f">>, ApplicationPdfx, 1, "C"),
    File(<<"n", ".", "t">>, TextPlain, 1, "E"),
    File(<<"g", ".", "p">>, ApplicationPdf, FileSizeLimit + 1, "G") }

\* req.params.id of the /images/:id routes.
IdParams == { <<"1">>, <<" ", "+", "0", "x", "1">>, <<"x">> }

\* process.env.GCS_BUCKET_NAME: the empty string stands for an absent value,
\* both are falsy in getBucket.
BucketNames == { <<>>, <<"b">> }

\* ---------------------------------------------------------------- state
VARIABLES
  env,      \* process.env.GCS_BUCKET_NAME
  clock,    \* the time Date.now() and the store's now() read
  blobs,    \* the bucket: the stored objects, one per object name
  rows,     \* the Image table of the metadata store
  nextId,   \* the table's autoincrement sequence
  req,      \* the requests being handled: input, position, locals, calls issued
  out,      \* the request that the latest step answered, with its response
  sent      \* the answers kept per request, for the requests that are followed

vars == <<env, clock, blobs, rows, nextId, req, out, sent>>

\* findUnique found no row.
Null == [id |-> 0]

NoRes == [status |-> 0]

IdleReq ==
  [kind |-> "none", pc |-> "idle", file |-> NoFile, id |-> 0, fileName |-> <<>>,
   image |-> Null, calls |-> <<>>, res |-> NoRes]

\* A request whose response has been sent: nothing of it is kept.
DoneReq == [IdleReq EXCEPT !.pc = "done"]

\* The latest step answered no request.
NoOut == IdleReq

\* res.status(s).json({error, message, ...data})
Json(status, error, message, data) ==
  [status |-> status, error |-> error, message |-> message, data |-> data]

Call(op, ok) == [op |-> op, ok |-> ok]

\* Requests are numbered in the order they arrive.
Arrives(r) ==
  /\ req[r].pc = "idle"
  /\ \A q \in Req : q < r => req[q].pc # "idle"

\* A step of the handler of request r that leaves it as nr: waiting at its next
\* await, or answered (pc = "done", res set). A request answered by the step it
\* arrives in takes no place in req.
Handle(r, nr) ==
  /\ req' = [req EXCEPT ![r] = IF nr.pc # "done" THEN nr
                               ELSE IF req[r].pc = "idle" THEN IdleReq
                               ELSE DoneReq]
  /\ out' = IF nr.pc = "done" THEN nr ELSE NoOut
  /\ sent' = IF nr.pc = "done" /\ r \in DOMAIN sent
             THEN [sent EXCEPT ![r] = nr]
             ELSE sent

\* getBucket without its check of the bucket name.
getBucketUnchecked == FALSE

\* getBucket throws when the bucket name is not set.
getBucketThrows == env = <<>>

\* ---------------------------------------------------------------- the store
\* id @default(autoincrement()), createdAt @default(now()) of the Image model.
NewRow(name, url) == [id |-> nextId, name |-> name, url |-> url, createdAt |-> clock]

\* prisma.image.findUnique({ where: { id } })
findUnique(id) ==
  IF \E row \in rows : row.id = id
  THEN CHOOSE row \in rows : row.id = id
  ELSE Null

\* The ordering with 'asc' in place of 'desc'.
findManyOrderByAsc(s) ==
  \A i, j \in 1..Len(s) : i < j => s[i].createdAt <= s[j].createdAt

\* orderBy: { createdAt: 'desc' } on a result list.
findManyOrderBy(s) ==
  \A i, j \in 1..Len(s) : i < j => s[i].createdAt >= s[j].createdAt

\* The lists prisma.image.findMany({ orderBy }) may resolve with: every row once,
\* in the order asked for; rows of equal createdAt come in any order.
findMany ==
  { s \in [1..Cardinality(rows) -> rows] :
      /\ \A i, j \in 1..Cardinality(rows) : i # j => s[i] # s[j]
      /\ findManyOrderBy(s) }

\* blob.save(file.buffer, { contentType, metadata: { cacheControl } }):
\* the object under that name is written, or overwritten.
Saved(name, file) ==
  { b \in blobs : b.name # name } \cup
  { [name |-> name, buffer |-> file.buffer, contentType |-> file.mimetype,
     cacheControl |-> "public, max-age=31536000"] }

\* bucket.file(name).delete()
Deleted(name) == { b \in blobs : b.name # name }

\* An object is stored under that name.
Stored(name) == \E b \in blobs : b.name = name

Init ==
  /\ env \in BucketNames
  /\ clock = 0
  /\ blobs = {}
  /\ rows = {}
  /\ nextId = 1
  /\ req = [r \in Req |-> IdleReq]
  /\ out = NoOut
  /\ sent = <<>>

\* ---------------------------------------------------------------- POST /upload
UploadFailed == Json(500, "Upload failed", "Failed to upload image", Null)

\* The fileFilter refuses the file.
uploadFilterRejects(f) == ~isAllowed(f.mimetype)

\* upload.single('image') on the request's file part, then the controller up to
\* the first await of uploadImage. No file part: req.file stays undefined, 400.
\* A file the filter refuses, or one over limits.fileSize: multer passes its
\* error to next() and the application's error middleware answers.
\* Otherwise getBucket, the object name, and blob.save is issued.
postUpload(r, f) ==
  IF f = NoFile
  THEN [req[r] EXCEPT !.kind = "upload", !.pc = "done",
                      !.res = Json(400, "No file uploaded", "", Null)]
  ELSE IF uploadFilterRejects(f)
  THEN [req[r] EXCEPT !.kind = "upload", !.file = f, !.pc = "done",
                      !.res = Json(500, "Internal server error",
                                   "Only image and PDF files are allowed", Null)]
  ELSE IF f.size > FileSizeLimit
  THEN [req[r] EXCEPT !.kind = "upload", !.file = f, !.pc = "done",
                      !.res = Json(500, "Internal server error", "File too large", Null)]
  ELSE IF getBucketThrows
  THEN [req[r] EXCEPT !.kind = "upload", !.file = f, !.pc = "done",
                      !.res = UploadFailed]
  ELSE [req[r] EXCEPT !.kind = "upload", !.file = f, !.pc = "save",
                      !.fileName = fileNameOf(clock, f.originalname)]

PostUpload(r, f) ==
  /\ Arrives(r)
  /\ Handle(r, postUpload(r, f))
  /\ UNCHANGED <<env, clock, blobs, rows, nextId>>

\* The rejection of blob.save swallowed: the handler goes on to create the row.
saveFailureSwallowed(r) ==
  [req[r] EXCEPT !.pc = "create", !.calls = Append(@, Call("save", FALSE))]

\* await blob.save(...) rejects: the catch rethrows, the controller answers 500.
saveFailure(r) ==
  [req[r] EXCEPT !.pc = "done", !.calls = Append(@, Call("save", FALSE)),
                 !.res = UploadFailed]

BlobSaveFail(r) ==
  /\ req[r].pc = "save"
  /\ Handle(r, saveFailure(r))
  /\ UNCHANGED <<env, clock, blobs, rows, nextId>>

\* await blob.save(...) resolves: prisma.image.create is issued next.
BlobSaveOk(r) ==
  /\ req[r].pc = "save"
  /\ blobs' = Saved(req[r].fileName, req[r].file)
  /\ Handle(r, [req[r] EXCEPT !.pc = "create",
                              !.calls = Append(@, Call("save", TRUE))])
  /\ UNCHANGED <<env, clock, rows, nextId>>

\* The row uploadImage creates: name and url.
createData(r) ==
  NewRow(req[r].file.originalname, publicUrl(env, req[r].fileName))

\* await prisma.image.create(...) resolves: the saved row is returned, 201.
CreateOk(r) ==
  /\ req[r].pc = "create"
  /\ rows' = rows \cup {createData(r)}
  /\ nextId' = nextId + 1
  /\ Handle(r, [req[r] EXCEPT !.pc = "done", !.image = createData(r),
                              !.calls = Append(@, Call("create", TRUE)),
                              !.res = Json(201, "", "Upload successful",
                                           createData(r))])
  /\ UNCHANGED <<env, clock, blobs>>

\* await prisma.image.create(...) rejects.
CreateFail(r) ==
  /\ req[r].pc = "create"
  /\ Handle(r, [req[r] EXCEPT !.pc = "done", !.res = UploadFailed,
                              !.calls = Append(@, Call("create", FALSE))])
  /\ UNCHANGED <<env, clock, blobs, rows, nextId>>

\* ---------------------------------------------------------------- DELETE /images/:id
DeleteFailed == Json(500, "Failed to delete image", "Failed to delete image", Null)

\* The controller: parseInt(req.params.id), 400 when NaN; then deleteImage up to
\* its first await: getBucket, then findUnique is issued.
deleteBegin(r, p) ==
  IF isNaN(ParseInt(p))
  THEN [req[r] EXCEPT !.kind = "delete", !.pc = "done",
                      !.res = Json(400, "Invalid image ID", "", Null)]
  ELSE IF getBucketThrows
  THEN [req[r] EXCEPT !.kind = "delete", !.id = ParseInt(p).value, !.pc = "done",
                      !.res = DeleteFailed]
  ELSE [req[r] EXCEPT !.kind = "delete", !.id = ParseInt(p).value, !.pc = "find"]

DeleteBegin(r, p) ==
  /\ Arrives(r)
  /\ Handle(r, deleteBegin(r, p))
  /\ UNCHANGED <<env, clock, blobs, rows, nextId>>

\* await prisma.image.findUnique(...) rejects.
DeleteFindFail(r) ==
  /\ req[r].pc = "find"
  /\ Handle(r, [req[r] EXCEPT !.pc = "done", !.res = DeleteFailed,
                              !.calls = Append(@, Call("findUnique", FALSE))])
  /\ UNCHANGED <<env, clock, blobs, rows, nextId>>

\* The handler once findUnique has resolved with image: 'Image not found' is
\* thrown inside the try and rethrown by its catch as 'Failed to delete image';
\* otherwise the object name is taken from the url and the blob deletion is
\* issued, or, for an empty name, the row deletion.
deleteImageFound(r, image) ==
  IF image = Null
  THEN [req[r] EXCEPT !.pc = "done", !.res = DeleteFailed,
                      !.calls = Append(@, Call("findUnique", TRUE))]
  ELSE [req[r] EXCEPT !.image = image,
                      !.fileName = fileNameOfUrl(image.url),
                      !.pc = IF fileNameOfUrl(image.url) # <<>>
                             THEN "blobDelete" ELSE "rowDelete",
                      !.calls = Append(@, Call("findUnique", TRUE))]

DeleteFind(r) ==
  /\ req[r].pc = "find"
  /\ Handle(r, deleteImageFound(r, findUnique(req[r].id)))
  /\ UNCHANGED <<env, clock, blobs, rows, nextId>>

\* await bucket.file(fileName).delete() rejects, the object being absent or the
\* bucket failing: the catch rethrows, prisma.image.delete is not reached.
blobDeleteFailure(r) ==
  [req[r] EXCEPT !.pc = "done", !.res = DeleteFailed,
                 !.calls = Append(@, Call("blobDelete", FALSE))]

BlobDeleteFail(r) ==
  /\ req[r].pc = "blobDelete"
  /\ Handle(r, blobDeleteFailure(r))
  /\ UNCHANGED <<env, clock, blobs, rows, nextId>>

\* await bucket.file(fileName).delete() resolves: the object was there.
BlobDeleteOk(r) ==
  /\ req[r].pc = "blobDelete"
  /\ Stored(req[r].fileName)
  /\ blobs' = Deleted(req[r].fileName)
  /\ Handle(r, [req[r] EXCEPT !.pc = "rowDelete",
                              !.calls = Append(@, Call("blobDelete", TRUE))])
  /\ UNCHANGED <<env, clock, rows, nextId>>

\* A rejected prisma.image.delete that has removed the row all the same.
RowDeleteFailRemovingRow(r) ==
  /\ req[r].pc = "rowDelete"
  /\ rows' = { row \in rows : row.id # req[r].id }
  /\ Handle(r, [req[r] EXCEPT !.pc = "done", !.res = DeleteFailed,
                              !.calls = Append(@, Call("delete", FALSE))])
  /\ UNCHANGED <<env, clock, blobs, nextId>>

\* await prisma.image.delete(...) rejects: no such row any more, or the store fails.
RowDeleteFail(r) ==
  /\ req[r].pc = "rowDelete"
  /\ Handle(r, [req[r] EXCEPT !.pc = "done", !.res = DeleteFailed,
                              !.calls = Append(@, Call("delete", FALSE))])
  /\ UNCHANGED <<env, clock, blobs, rows, nextId>>

\* await prisma.image.delete(...) resolves: 200.
RowDeleteOk(r) ==
  /\ req[r].pc = "rowDelete"
  /\ findUnique(req[r].id) # Null
  /\ rows' = { row \in rows : row.id # req[r].id }
  /\ Handle(r, [req[r] EXCEPT !.pc = "done",
                              !.calls = Append(@, Call("delete", TRUE)),
                              !.res = Json(200, "", "Image deleted successfully",
                                           Null)])
  /\ UNCHANGED <<env, clock, blobs, nextId>>

\* ---------------------------------------------------------------- GET /images
\* The controller calls getAllImages, which issues prisma.image.findMany and
\* waits for it.
GetAllImages(r) ==
  /\ Arrives(r)
  /\ Handle(r, [req[r] EXCEPT !.kind = "getAll", !.pc = "findMany"])
  /\ UNCHANGED <<env, clock, blobs, rows, nextId>>

\* The controller's answer once getAllImages has resolved with images.
getAllImagesAnswer(images) == Json(200, "", "", images)

\* await prisma.image.findMany(...) resolves.
GetAllImagesOk(r) ==
  /\ req[r].pc = "findMany"
  /\ \E images \in findMany :
       Handle(r, [req[r] EXCEPT !.pc = "done",
                                !.calls = <<Call("findMany", TRUE)>>,
                                !.res = getAllImagesAnswer(images)])
  /\ UNCHANGED <<env, clock, blobs, rows, nextId>>

\* await prisma.image.findMany(...) rejects: getAllImages rethrows, 500.
GetAllImagesFail(r) ==
  /\ req[r].pc = "findMany"
  /\ Handle(r, [req[r] EXCEPT !.pc = "done",
                              !.calls = <<Call("findMany", FALSE)>>,
                              !.res = Json(500, "Failed to fetch images",
                                           "Failed to fetch images", Null)])
  /\ UNCHANGED <<env, clock, blobs, rows, nextId>>

\* ---------------------------------------------------------------- GET /images/:id
\* The controller: parseInt(req.params.id), 400 when NaN; else getImageById
\* issues prisma.image.findUnique and waits for it.
getImageById(r, p) ==
  IF isNaN(ParseInt(p))
  THEN [req[r] EXCEPT !.kind = "getById", !.pc = "done",
                      !.res = Json(400, "Invalid image ID", "", Null)]
  ELSE [req[r] EXCEPT !.kind = "getById", !.id = ParseInt(p).value,
                      !.pc = "findUnique"]

GetImageById(r, p) ==
  /\ Arrives(r)
  /\ Handle(r, getImageById(r, p))
  /\ UNCHANGED <<env, clock, blobs, rows, nextId>>

\* The controller's answer once getImageById has resolved with image: 404 for
\* null, else 200 with the row.
getImageByIdFound(r, image) ==
  IF image = Null
  THEN [req[r] EXCEPT !.pc = "done",
                      !.calls = <<Call("findUnique", TRUE)>>,
                      !.res = Json(404, "Image not found", "", Null)]
  ELSE [req[r] EXCEPT !.pc = "done",
                      !.calls = <<Call("findUnique", TRUE)>>,
                      !.res = Json(200, "", "", image)]

\* await prisma.image.findUnique(...) resolves.
GetImageByIdFind(r) ==
  /\ req[r].pc = "findUnique"
  /\ Handle(r, getImageByIdFound(r, findUnique(req[r].id)))
  /\ UNCHANGED <<env, clock, blobs, rows, nextId>>

\* await prisma.image.findUnique(...) rejects: getImageById rethrows, 500.
GetImageByIdFail(r) ==
  /\ req[r].pc = "findUnique"
  /\ Handle(r, [req[r] EXCEPT !.pc = "done",
                              !.calls = <<Call("findUnique", FALSE)>>,
                              !.res = Json(500, "Failed to fetch image",
                                           "Failed to fetch image", Null)])
  /\ UNCHANGED <<env, clock, blobs, rows, nextId>>

\* ---------------------------------------------------------------- time
Tick ==
  /\ clock < MaxClock
  /\ clock' = clock + 1
  /\ out' = NoOut
  /\ UNCHANGED <<env, blobs, rows, nextId, req, sent>>

Next ==
  \/ Tick
  \/ \E r \in Req :
       \/ \E f \in Files \cup {NoFile} : PostUpload(r, f)
       \/ BlobSaveFail(r)
       \/ BlobSaveOk(r)
       \/ CreateOk(r)
       \/ CreateFail(r)
       \/ \E p \in IdParams :
            \/ DeleteBegin(r, p)
            \/ GetImageById(r, p)
       \/ GetImageByIdFind(r)
       \/ GetImageByIdFail(r)
       \/ DeleteFindFail(r)
       \/ DeleteFind(r)
       \/ BlobDeleteFail(r)
       \/ BlobDeleteOk(r)
       \/ RowDeleteFail(r)
       \/ RowDeleteOk(r)
       \/ GetAllImages(r)
       \/ GetAllImagesOk(r)
       \/ GetAllImagesFail(r)

Spec == Init /\ [][Next]_vars

\* The runs in which no external call fails.
NextNoFailure ==
  \/ Tick
  \/ \E r \in Req :
       \/ \E f \in Files \cup {NoFile} : PostUpload(r, f)
       \/ BlobSaveOk(r)
       \/ CreateOk(r)
       \/ \E p \in IdParams :
            \/ DeleteBegin(r, p)
            \/ GetImageById(r, p)
       \/ GetImageByIdFind(r)
       \/ DeleteFind(r)
       \/ BlobDeleteOk(r)
       \/ RowDeleteOk(r)
       \/ GetAllImages(r)
       \/ GetAllImagesOk(r)

SpecNoFailure == Init /\ [][NextNoFailure]_vars

\* ---------------------------------------------------------------- two deletes
\* The runs of two delete requests with no outage of bucket or store, started
\* in a state the runs of Spec reach: the upload of a.p that arrived first has
\* been answered 201, and a second upload of a.p that arrived within the same
\* millisecond, and so derived the same key, is still waiting for its blob.save.
UploadedFile == CHOOSE f \in Files : f.buffer = "A"

UploadedKey == fileNameOf(0, UploadedFile.originalname)

FirstRow ==
  [id |-> 1, name |-> UploadedFile.originalname,
   url |-> publicUrl(<<"b">>, UploadedKey), createdAt |-> 0]

\* The requests whose answers are kept: the two deletes.
Deleters == {2, 3}

InitTwoDeletes ==
  /\ env = <<"b">>
  /\ clock = 0
  /\ blobs = { [name |-> UploadedKey, buffer |-> UploadedFile.buffer,
                contentType |-> UploadedFile.mimetype,
                cacheControl |-> "public, max-age=31536000"] }
  /\ rows = {FirstRow}
  /\ nextId = 2
  /\ req = [r \in Req |->
              IF r = 1
              THEN [IdleReq EXCEPT !.kind = "upload", !.pc = "save",
                                   !.file = UploadedFile,
                                   !.fileName = UploadedKey]
              ELSE IdleReq]
  /\ out = NoOut
  /\ sent = [r \in Deleters |-> IdleReq]

\* bucket.file(fileName).delete() rejects because no such object is stored.
BlobDeleteAbsent(r) ==
  /\ ~Stored(req[r].fileName)
  /\ BlobDeleteFail(r)

\* prisma.image.delete rejects because no row has that id.
RowDeleteAbsent(r) ==
  /\ findUnique(req[r].id) = Null
  /\ RowDeleteFail(r)

\* A delete arrives while no delete has been answered yet: the two run
\* concurrently.
ConcurrentDeleteBegin(r, p) ==
  /\ \A q \in Deleters : sent[q].pc # "done"
  /\ DeleteBegin(r, p)

NextTwoDeletes ==
  \/ Tick
  \/ \E r \in Req :
       \/ BlobSaveOk(r)
       \/ CreateOk(r)
  \/ \E r \in Deleters :
       \/ \E p \in IdParams : ConcurrentDeleteBegin(r, p)
       \/ DeleteFind(r)
       \/ BlobDeleteOk(r)
       \/ BlobDeleteAbsent(r)
       \/ RowDeleteOk(r)
       \/ RowDeleteAbsent(r)

SpecTwoDeletes == InitTwoDeletes /\ [][NextTwoDeletes]_vars

\* ---------------------------------------------------------------- properties
\* Request q has issued the call op.
Issued(q, op) == \E i \in 1..Len(q.calls) : q.calls[i].op = op

\* The call op of request q was rejected.
Rejected(q, op) == \E i \in 1..Len(q.calls) : q.calls[i] = Call(op, FALSE)

\* The latest step answered a request of that kind.
Answered(kind) == out.pc = "done" /\ out.kind = kind

\* C1: when the blob put of an upload fails, the upload fails as a whole: the
\* request is answered with a failure in that very step, it never issues the
\* record create, and the step leaves the table of Records as it was.
C1_PutFailureCreatesNoRecord ==
  [][ /\ \A r \in Req : ~Rejected(req'[r], "save")
      /\ Rejected(out', "save") =>
           /\ out'.pc = "done"
           /\ out'.res.status = 500
           /\ ~Issued(out', "create")
           /\ rows' = rows
           /\ nextId' = nextId ]_vars

\* C1 witness: an upload has just failed at its blob put while Records exist.
C1_Witness ==
  /\ Answered("upload")
  /\ Rejected(out, "save")
  /\ rows # {}

\* C2: whenever uploadImage returns successfully, the blob put completed before
\* the record create, a Record with the original filename and the public URL of
\* bucket and key exists, and a blob is stored under that key.
C2_SuccessfulUploadHasRecordAndBlob ==
  (Answered("upload") /\ out.res.status = 201) =>
     /\ out.calls = <<Call("save", TRUE), Call("create", TRUE)>>
     /\ \E row \in rows :
          /\ row = out.res.data
          /\ row.name = out.file.originalname
          /\ row.url = publicUrl(env, out.fileName)
     /\ Stored(out.fileName)

\* C3: whenever deleteImage(id) returns successfully, getImageById(id) finds
\* nothing and no blob is stored under the last path segment of the Record's url.
C3_DeleteRemovesRecordAndBlob ==
  (Answered("delete") /\ out.res.status = 200) =>
     /\ findUnique(out.id) = Null
     /\ ~Stored(fileNameOfUrl(out.image.url))

\* The delete request q found no Record for its id.
DeleteOfAbsentId(q) ==
  /\ q.kind = "delete"
  /\ q.calls = <<Call("findUnique", TRUE)>>
  /\ q.image = Null

\* C4: deleting an id for which no Record exists is answered with a not-found
\* outcome that differs from the answer to the other failures of a delete, and
\* issues no blob operation and no record deletion.
C4_DeleteOfAbsentIdIsNotFound ==
  (out.pc = "done" /\ DeleteOfAbsentId(out)) =>
     /\ out.res \notin { blobDeleteFailure(r).res : r \in Req }
     /\ ~Issued(out, "blobDelete")
     /\ ~Issued(out, "delete")

\* C5: a delete whose blob deletion failed still goes on to delete the Record:
\* it is not answered before the record deletion has been issued.
C5_FailedBlobDeletionStillDeletesRecord ==
  (Answered("delete") /\ Rejected(out, "blobDelete")) => Issued(out, "delete")

\* An upload being handled that has derived its object key.
Uploading(r) == req[r].kind = "upload" /\ req[r].pc \in {"save", "create"}

\* C6: any two uploads of files sharing an extension, concurrent or within the
\* same clock unit, derive different object keys, so that no upload writes
\* over the blob of another.
C6_UploadKeysDiffer ==
  /\ \A r1, r2 \in Req :
       (/\ r1 # r2
        /\ Uploading(r1)
        /\ Uploading(r2)
        /\ ExtName(req[r1].file.originalname) = ExtName(req[r2].file.originalname))
       => req[r1].fileName # req[r2].fileName
  /\ \A r \in Req : (Uploading(r) /\ req[r].pc = "save") => ~Stored(req[r].fileName)

\* The delete of that Record has removed its blob and is about to remove the Record.
BeingDeleted(row) ==
  \E r \in Req :
    /\ req[r].kind = "delete"
    /\ req[r].pc = "rowDelete"
    /\ req[r].id = row.id
    /\ Issued(req[r], "blobDelete")

\* C7: while no external call has failed, every Record corresponds to exactly
\* one blob: no other Record has the key of its url, and that blob is stored
\* unless the Record's own delete has removed it and is about to remove the Record.
C7_EveryRecordHasItsOwnBlob ==
  \A row \in rows :
    /\ \A other \in rows :
         other # row => fileNameOfUrl(other.url) # fileNameOfUrl(row.url)
    /\ Stored(fileNameOfUrl(row.url)) \/ BeingDeleted(row)

\* C8: getAllImages answers with every Record of the store, each once, ordered
\* by createdAt descending.
C8_GetAllNewestFirst ==
  (Answered("getAll") /\ out.res.status = 200) =>
     LET images == out.res.data IN
       /\ Len(images) = Cardinality(rows)
       /\ { images[i] : i \in 1..Len(images) } = rows
       /\ \A i, j \in 1..Len(images) :
            i < j => images[i].createdAt >= images[j].createdAt

\* C8 witness: a listing of two Records created at different times: the one
\* inserted later comes first.
C8_Witness ==
  /\ Answered("getAll")
  /\ out.res.status = 200
  /\ Len(out.res.data) = 2
  /\ out.res.data[1].createdAt > out.res.data[2].createdAt
  /\ out.res.data[1].id > out.res.data[2].id

\* The declared type is neither image/* nor application/pdf.
NeitherImageNorPdf(mimetype) ==
  ~StartsWith(mimetype, ImageSlash) /\ mimetype # ApplicationPdf

\* C9: an upload whose declared MIME type is neither image/* nor application/pdf
\* is rejected before uploadImage runs: it issues no blob put and no record create.
C9_OtherTypesNeverReachTheBucket ==
  /\ \A r \in Req :
       req[r].kind = "upload" => ~NeitherImageNorPdf(req[r].file.mimetype)
  /\ (Answered("upload") /\ out.file # NoFile
        /\ NeitherImageNorPdf(out.file.mimetype)) => out.calls = <<>>

\* C10: POST /api/upload answers 400 when no file is supplied and when the
\* file's type is refused, 500 only when the upload sequence itself fails, and
\* 201 with the created Record on success.
C10_UploadStatusCodes ==
  Answered("upload") =>
     /\ out.file = NoFile => out.res.status = 400
     /\ (out.file # NoFile /\ uploadFilterRejects(out.file)) => out.res.status = 400
     /\ out.res.status = 500 =>
          \/ Rejected(out, "save")
          \/ Rejected(out, "create")
          \/ getBucketThrows
     /\ out.res.status = 201 => out.res.data \in rows

\* C11: with the bucket name absent the process starts and the reads are
\* answered from the store as usual, while every upload and every delete fails
\* at getBucket, before any call on the bucket or the store: none is ever
\* waiting on such a call, none has issued one, and bucket and table stay as
\* they were.
C11_NoBucketNameFailsAtFirstAccess ==
  env = <<>> =>
     /\ \A r \in Req : req[r].kind \notin {"upload", "delete"}
     /\ blobs = {}
     /\ rows = {}
     /\ (Answered("upload") \/ Answered("delete")) =>
          /\ out.res.status >= 400
          /\ out.calls = <<>>
     /\ (Answered("getAll") /\ ~Rejected(out, "findMany")) => out.res.status = 200
     /\ (Answered("getById") /\ out.calls = <<Call("findUnique", TRUE)>>) =>
          out.res.status \in {200, 404}

\* C11 witness: with the bucket name absent, an upload of a file the filter
\* accepts has just been answered with the failure of uploadImage.
C11_Witness ==
  /\ env = <<>>
  /\ Answered("upload")
  /\ out.file # NoFile
  /\ ~uploadFilterRejects(out.file)
  /\ out.file.size <= FileSizeLimit
  /\ out.res = UploadFailed

\* A delete answered after its record deletion was rejected, the blob deletion
\* before it having succeeded.
RowDeleteFailedAfterBlobDelete(q) ==
  /\ q.kind = "delete"
  /\ q.calls = <<Call("findUnique", TRUE), Call("blobDelete", TRUE),
                 Call("delete", FALSE)>>

\* C12: when the record deletion of a delete fails after its blob deletion
\* succeeded, the request is answered with a failure, the Record is still found
\* by its id as it was, and no blob is stored under the key of its url.
C12_FailedRecordDeletionLeavesDanglingRecord ==
  (out.pc = "done" /\ RowDeleteFailedAfterBlobDelete(out)) =>
     /\ out.res.status >= 400
     /\ findUnique(out.id) = out.image
     /\ ~Stored(fileNameOfUrl(out.image.url))

\* An upload answered after its record create was rejected, the blob put before
\* it having succeeded.
CreateFailedAfterSave(q) ==
  /\ q.kind = "upload"
  /\ q.calls = <<Call("save", TRUE), Call("create", FALSE)>>

\* A stored blob that no Record references and whose upload is over.
Orphan(b) ==
  /\ b \in blobs
  /\ \A row \in rows : fileNameOfUrl(row.url) # b.name
  /\ \A r \in Req : Uploading(r) => req[r].fileName # b.name

\* C13: when the record create of an upload fails after its blob put succeeded,
\* the upload is answered with a failure without having issued a blob deletion,
\* and its blob is left stored with no Record referencing its key; no step ever
\* removes or rewrites an orphan blob; and every blob deletion a delete issues
\* targets the key taken from the url of a Record of the table.
C13_FailedCreateLeavesOrphanBlob ==
  [][ /\ (out'.pc = "done" /\ CreateFailedAfterSave(out')) =>
           /\ out'.res.status >= 400
           /\ ~Issued(out', "blobDelete")
           /\ \E b \in blobs' : b.name = out'.fileName
           /\ \A row \in rows' : fileNameOfUrl(row.url) # out'.fileName
      /\ \A b \in blobs : Orphan(b) => b \in blobs'
      /\ \A r \in Req :
           (req'[r].pc = "blobDelete" /\ req[r].pc # "blobDelete") =>
             \E row \in rows : req'[r].fileName = fileNameOfUrl(row.url) ]_vars

\* C14: a Record enters the table only in the step that answers an upload 201,
\* after that upload's blob put and record create both succeeded, as the row
\* that answer carries and under an id no Record had; a Record leaves the table
\* only in the step in which the record deletion of a delete of its id
\* succeeds; no step changes a field of a Record that stays; and every step
\* that answers a read or answers any request with a failure leaves the table
\* as it was.
C14_RecordLifecycle ==
  [][ /\ \A row \in rows' \ rows :
           /\ out'.pc = "done"
           /\ out'.kind = "upload"
           /\ out'.calls = <<Call("save", TRUE), Call("create", TRUE)>>
           /\ out'.res.status = 201
           /\ out'.res.data = row
           /\ \A old \in rows : old.id # row.id
      /\ \A row \in rows \ rows' :
           /\ out'.pc = "done"
           /\ out'.kind = "delete"
           /\ out'.id = row.id
           /\ out'.calls[Len(out'.calls)] = Call("delete", TRUE)
           /\ \A new \in rows' : new.id # row.id
      /\ (/\ out'.pc = "done"
          /\ \/ out'.kind \in {"getAll", "getById"}
             \/ out'.res.status >= 400) => rows' = rows ]_vars

\* C14 witness: a delete has just removed its Record while another Record,
\* created by an earlier upload, is still in the table.
C14_Witness ==
  /\ Answered("delete")
  /\ out.res.status = 200
  /\ findUnique(out.id) = Null
  /\ rows # {}

\* Request r was a delete of that id and has been answered.
DeleteAnswered(r, id) ==
  /\ sent[r].pc = "done"
  /\ sent[r].kind = "delete"
  /\ sent[r].id = id
  /\ sent[r].calls # <<>>

\* C15: once two deletes of the same existing id, run with no outage, have both
\* been answered, exactly one of them was answered with success and the other
\* with a failure, the Record is gone and no blob is stored under its key.
C15_TwoDeletesOfOneId ==
  (\A r \in Deleters : DeleteAnswered(r, FirstRow.id)) =>
     /\ \E r1, r2 \in Deleters :
          /\ r1 # r2
          /\ sent[r1].res.status = 200
          /\ sent[r2].res.status >= 400
     /\ findUnique(FirstRow.id) = Null
     /\ ~Stored(fileNameOfUrl(FirstRow.url))

====
